---- MODULE Spec2Model ----
(***************************************************************************)
(* Digital lockers (digitallocker.py) and the Canetti et al. reusable      *)
(* fuzzy extractor built on them (canetti.py): set_l, gen, rep.            *)
(*                                                                         *)
(* Python values are tagged records: [ty |-> "str", v |-> <<codes>>] is a  *)
(* str (sequence of code points), [ty |-> "list", v |-> <<ints>>] a list   *)
(* of ints, [ty |-> "tuple", v |-> <<...>>] a tuple, [ty |-> "int", ...]   *)
(* an int, [ty |-> "None"] is None and [ty |-> "raise", exc |-> e] is an   *)
(* uncaught exception.  Arbitrary-precision ints used by the XOR are       *)
(* sequences of hex digits (0..15) without leading zeros; zero is << >>.   *)
(***************************************************************************)
EXTENDS Integers, Sequences, FiniteSets, TLC

VARIABLES
    pc,          \* position of the running call
    key, val, s, alg, c, u,      \* lock / unlock called directly (as __main__ of digitallocker.py)
    n, k, t, delta, l,           \* arguments and result of set_l (delta in 1/10000)
    w, r, p, i, lock_calls,      \* gen: reading, key r, helper data p, loop index, calls made to dl.lock
    global_k,                    \* module-level name k of canetti.py: None when unbound
    wprime, out, tried           \* rep: reading, returned value, indices whose unlock was attempted

vars == <<pc, key, val, s, alg, c, u, n, k, t, delta, l, w, r, p, i, lock_calls,
          global_k, wprime, out, tried>>

\* ------------------------------------------------------------------ bounds
DigestLen == 2        \* digest width in bytes of the widest modelled hash
MaxS == 2             \* largest s tried on lock/unlock called directly
MaxValLen == 2        \* longest value locked directly
MaxN == 4             \* largest n tried on set_l called directly
MaxK == 2             \* largest k tried on set_l called directly
MaxT == 2             \* largest t tried on set_l called directly
MaxEntries == 2       \* longest hand-made helper data given to rep

\* ------------------------------------------------------- program constants
DefaultS == 16        \* lock/unlock keyword default s
DefaultNBytes == 16   \* lock keyword default nbytes

\* --------------------------------------------------------- python values
None == [ty |-> "None"]
PyStr(cs) == [ty |-> "str", v |-> cs]
PyList(xs) == [ty |-> "list", v |-> xs]
PyTuple(xs) == [ty |-> "tuple", v |-> xs]
PyInt(x) == [ty |-> "int", v |-> x]
Raise(e) == [ty |-> "raise", exc |-> e]

Max(a, b) == IF a < b THEN b ELSE a

\* "0" * cnt
Zeros(cnt) == [j \in 1..cnt |-> 48]

\* repr of a list of one-digit ints: "[" + ", ".join(...) + "]"
RECURSIVE JoinDigits(_)
JoinDigits(xs) ==
    IF Len(xs) = 0 THEN << >>
    ELSE IF Len(xs) = 1 THEN <<48 + xs[1]>>
    ELSE <<48 + xs[1], 44, 32>> \o JoinDigits(Tail(xs))

\* str(x) for a str (itself) or a list of ints
Str(x) == IF x.ty = "str" THEN x.v ELSE <<91>> \o JoinDigits(x.v) \o <<93>>

\* lower-case hex character of a hex digit
HexChar(d) == IF d < 10 THEN 48 + d ELSE 87 + d

\* bytes -> sequence of hex digits, two per byte (bytes.hex())
RECURSIVE BytesHex(_)
BytesHex(bs) ==
    IF Len(bs) = 0 THEN << >>
    ELSE <<bs[1] \div 16, bs[1] % 16>> \o BytesHex(Tail(bs))

\* int(h, 16) for a non-empty hex string: leading zeros do not count
RECURSIVE IntOfHex(_)
IntOfHex(h) ==
    IF Len(h) = 0 THEN << >>
    ELSE IF h[1] = 0 THEN IntOfHex(Tail(h)) ELSE h

\* hex(x)[2:]
HexOfInt(x) == IF Len(x) = 0 THEN <<0>> ELSE x

XorDigit(a, b) ==
    LET bit(j) == (((a \div (2 ^ j)) % 2) + ((b \div (2 ^ j)) % 2)) % 2
    IN  bit(0) + 2 * bit(1) + 4 * bit(2) + 8 * bit(3)

\* x ^ y on arbitrary-precision ints
IntXor(x, y) ==
    LET m == Max(Len(x), Len(y))
        dx(j) == IF j <= m - Len(x) THEN 0 ELSE x[j - (m - Len(x))]
        dy(j) == IF j <= m - Len(y) THEN 0 ELSE y[j - (m - Len(y))]
    IN  IntOfHex([j \in 1..m |-> XorDigit(dx(j), dy(j))])

\* str.encode() on ASCII text: one byte per character
Encode(cs) == cs

\* hashlib.algorithms_guaranteed (the members used here)
algorithms_guaranteed == {"sha256", "md5", "blake2b"}

\* the algorithm actually used: unknown identifiers fall back to sha256
HashAlgOf(a) == IF a \notin algorithms_guaranteed THEN "sha256" ELSE a

\* digest width in bytes of an algorithm (scaled-down widths)
DigestBytes(a) == IF a = "md5" THEN DigestLen - 1 ELSE DigestLen

AlgSalt(a) == CASE a = "sha256" -> 5 [] a = "md5" -> 11 [] OTHER -> 23

RECURSIVE Mix(_, _, _)
Mix(h, j, bs) ==
    IF Len(bs) = 0 THEN h
    ELSE Mix((h * 131 + bs[1] + 7 * j) % 256, j, Tail(bs))

\* hashlib.new(a).update(data).hexdigest(): a deterministic function of
\* (algorithm, data) giving 2 * DigestBytes(a) hex digits
HexDigest(a, data) ==
    BytesHex([j \in 1..DigestBytes(a) |-> Mix((AlgSalt(a) + 17 * j) % 256, j, data)])

\* secrets.token_bytes(nb).hex() for the byte b repeated nb times
NonceHex(b, nb) == [j \in 1..(2 * nb) |-> HexChar(IF j % 2 = 1 THEN b \div 16 ELSE b % 16)]

\* H(nonce, key) as an int
NonceKeyHash(nonce, kk, a) == IntOfHex(HexDigest(HashAlgOf(a), Encode(nonce \o Str(kk))))

\* digitallocker.lock with the nonce drawn by the caller of this operator
lock(kk, vv, ss, a, nonce) ==
    LET val_zero_str == Str(vv) \o Zeros(ss)
    IN  IF Len(val_zero_str) = 0 THEN Raise("ValueError")   \* int("", 16)
        ELSE LET xor_val == IntXor(NonceKeyHash(nonce, kk, a),
                                   IntOfHex(BytesHex(Encode(val_zero_str))))
             IN  PyTuple(<<PyStr(nonce), HexOfInt(xor_val)>>)

\* bytes.fromhex(h): pairs of hex digits; only called on even lengths
RECURSIVE FromHex(_)
FromHex(h) ==
    IF Len(h) < 2 THEN << >>
    ELSE <<16 * h[1] + h[2]>> \o FromHex(Tail(Tail(h)))

IsCont(b) == b >= 128 /\ b <= 191

\* bytes.decode(): the code points of a UTF-8 byte string, or <<-1>> when
\* the bytes are not valid UTF-8 (UnicodeDecodeError)
RECURSIVE Decode(_)
Decode(bs) ==
    IF Len(bs) = 0 THEN << >>
    ELSE LET b == bs[1]
             need == IF b < 128 THEN 1
                     ELSE IF b >= 194 /\ b <= 223 THEN 2
                     ELSE IF b >= 224 /\ b <= 239 THEN 3
                     ELSE IF b >= 240 /\ b <= 244 THEN 4
                     ELSE 0
             ok == /\ need > 0
                   /\ Len(bs) >= need
                   /\ \A j \in 2..need : IsCont(bs[j])
                   /\ (b = 224 => bs[2] >= 160)
                   /\ (b = 237 => bs[2] <= 159)
                   /\ (b = 240 => bs[2] >= 144)
                   /\ (b = 244 => bs[2] <= 143)
             cp == IF need = 1 THEN b
                   ELSE IF need = 2 THEN (b - 192) * 64 + (bs[2] - 128)
                   ELSE IF need = 3
                        THEN (b - 224) * 4096 + (bs[2] - 128) * 64 + (bs[3] - 128)
                   ELSE (b - 240) * 262144 + (bs[2] - 128) * 4096
                        + (bs[3] - 128) * 64 + (bs[4] - 128)
             rest == IF ok THEN Decode(SubSeq(bs, need + 1, Len(bs))) ELSE <<-1>>
         IN  IF ~ok \/ rest = <<-1>> THEN <<-1>> ELSE <<cp>> \o rest

\* cs[-ss:]  (cs[-0:] is the whole string)
LastChars(cs, ss) ==
    IF ss = 0 THEN cs ELSE SubSeq(cs, Max(1, Len(cs) - ss + 1), Len(cs))

\* cs.rstrip("0")
RECURSIVE RStrip0(_)
RStrip0(cs) ==
    IF Len(cs) > 0 /\ cs[Len(cs)] = 48 THEN RStrip0(SubSeq(cs, 1, Len(cs) - 1)) ELSE cs

\* digitallocker.unlock
unlock(kk, cc, ss, a) ==
    IF cc.ty # "tuple" THEN Raise("TypeError")     \* cannot unpack non-iterable
    ELSE IF Len(cc.v) # 2 THEN None                \* except ValueError
    ELSE LET nonce == cc.v[1].v
             xor_val == cc.v[2]
             val_zero_str == IntXor(NonceKeyHash(nonce, kk, a), IntOfHex(xor_val))
             h == HexOfInt(val_zero_str)
         IN  IF Len(h) % 2 = 1 THEN None           \* fromhex: ValueError
             ELSE LET dec == Decode(FromHex(h))
                  IN  IF dec = <<-1>> THEN None    \* UnicodeDecodeError
                      ELSE IF Zeros(ss) = LastChars(dec, ss)
                           THEN PyStr(RStrip0(dec))
                           ELSE None

\* ------------------------------------------------------------------ set_l
DeltaScale == 10 ^ 4      \* delta is carried as delta * 10^4
LnScale == 10 ^ 4
Log2Scale == 10 ^ 6

\* floor(math.log(nn) * 10^4)
LnFix(nn) ==
    CASE nn = 2 -> 6931 [] nn = 3 -> 10986 [] nn = 4 -> 13862 [] nn = 5 -> 16094
      [] nn = 6 -> 17917 [] nn = 7 -> 19459 [] nn = 8 -> 20794 [] nn = 1024 -> 69314

\* floor(math.log2(4 / delta) * 10^6) for delta = dd / 10^4
Log2Fix(dd) ==
    CASE dd = 36 -> 10117787 [] dd = 3000 -> 3736965 [] dd = 5000 -> 3000000
      [] dd = 10000 -> 2000000

\* math.ceil(a / b) for positive b
CeilDiv(a, b) == (a + b - 1) \div b

\* math.ceil((t * k) / (n * math.log(n)))
Exponent(nn, kk, tt) == CeilDiv(tt * kk * LnScale, nn * LnFix(nn))

\* int(x): truncation of the product q * log2(4/delta), q a positive int
IntTrunc(q, f) == q * (f \div Log2Scale) + (q * (f % Log2Scale)) \div Log2Scale

set_l_k0(nn, kk, tt, dd) ==
    IF nn < 2 \/ kk < 0 \/ tt < 1 \/ dd < 0 \/ dd > DeltaScale THEN PyInt(0)
    ELSE IF dd = 0 THEN Raise("ZeroDivisionError")
    ELSE PyInt(IntTrunc(nn ^ Exponent(nn, kk, tt), Log2Fix(dd)))

set_l(nn, kk, tt, dd) ==
    IF nn < 2 \/ kk < 1 \/ tt < 1 \/ dd < 0 \/ dd > DeltaScale THEN PyInt(0)
    ELSE IF dd = 0 THEN Raise("ZeroDivisionError")       \* 4 / delta
    ELSE PyInt(IntTrunc(nn ^ Exponent(nn, kk, tt), Log2Fix(dd)))

\* ------------------------------------------------------------ input sets
Deltas == {-1000, 0, 36, 3000, 5000, 10000, 15000}
Algs == {"sha256", "md5", "sha-256"}
NonceByteSet == {10, 255}
TokenByteSet == {97}
ReadingLens == {1, 2}
Readings == UNION {[1..m -> {0, 1}] : m \in ReadingLens}
GlobalKs == {None, PyInt(0), PyInt(1), PyInt(2)}

RECURSIVE SeqsUpTo(_, _)
SeqsUpTo(S, m) ==
    IF m = 0 THEN {<< >>}
    ELSE LET shorter == SeqsUpTo(S, m - 1)
         IN  shorter \cup {Append(q, x) : q \in {z \in shorter : Len(z) = m - 1}, x \in S}

Keys == {PyStr(<<107>>), PyStr(<<107, 107>>), PyList(<<0, 1>>)}
Vals == {PyStr(cs) : cs \in SeqsUpTo({10, 48, 97}, MaxValLen)}

\* the degenerate argument vectors of set_l and the reference vector
SetLVectors ==
    {<<1, 80, 31, 36>>, <<1024, 0, 31, 36>>, <<1024, 80, 31, -1000>>,
     <<1024, 80, 31, 15000>>, <<1024, 80, 31, 36>>}
SetLInputs ==
    ((0..MaxN) \X (0..MaxK) \X (0..MaxT) \X Deltas) \cup SetLVectors

\* arguments (k, t, delta) given to gen
GenParams == {<<1, 1, 10000>>, <<0, 1, 10000>>, <<1, 1, 0>>, <<1, 0, 10000>>}

\* repr of bytes made of printable characters: b'...'
BytesRepr(bs) == <<98, 39>> \o bs \o <<39>>

Idle ==
    [key |-> None, val |-> None, s |-> 0, alg |-> "sha256", c |-> None, u |-> None,
     n |-> 0, k |-> 0, t |-> 0, delta |-> 0, l |-> None,
     w |-> << >>, r |-> None, p |-> << >>, i |-> 0, lock_calls |-> << >>,
     global_k |-> None, wprime |-> << >>, out |-> None, tried |-> << >>]

\* ------------------------------------------- set_l called on its own
InitSetL ==
    /\ pc = "set_l"
    /\ \E a \in SetLInputs : n = a[1] /\ k = a[2] /\ t = a[3] /\ delta = a[4]
    /\ l = None
    /\ key = Idle.key /\ val = Idle.val /\ s = Idle.s /\ alg = Idle.alg
    /\ c = Idle.c /\ u = Idle.u
    /\ w = Idle.w /\ r = Idle.r /\ p = Idle.p /\ i = Idle.i
    /\ lock_calls = Idle.lock_calls /\ global_k = Idle.global_k
    /\ wprime = Idle.wprime /\ out = Idle.out /\ tried = Idle.tried

SetL ==
    /\ pc = "set_l"
    /\ l' = set_l(n, k, t, delta)
    /\ pc' = "set_l_done"
    /\ UNCHANGED <<key, val, s, alg, c, u, n, k, t, delta, w, r, p, i, lock_calls,
                   global_k, wprime, out, tried>>

NextSetL == SetL
SpecSetL == InitSetL /\ [][NextSetL]_vars

\* ------------------------------------- lock and unlock called directly
InitDL ==
    /\ pc = "lock"
    /\ key \in Keys /\ val \in Vals /\ s \in 0..MaxS /\ alg \in Algs
    /\ c = None /\ u = None
    /\ n = Idle.n /\ k = Idle.k /\ t = Idle.t /\ delta = Idle.delta /\ l = Idle.l
    /\ w = Idle.w /\ r = Idle.r /\ p = Idle.p /\ i = Idle.i
    /\ lock_calls = Idle.lock_calls /\ global_k = Idle.global_k
    /\ wprime = Idle.wprime /\ out = Idle.out /\ tried = Idle.tried

\* c = lock(key, val, s=s, alg=alg)
Lock ==
    /\ pc = "lock"
    /\ \E b \in NonceByteSet : c' = lock(key, val, s, alg, NonceHex(b, DefaultNBytes))
    /\ pc' = IF c'.ty = "raise" THEN "lock_raised" ELSE "unlock"
    /\ UNCHANGED <<key, val, s, alg, u, n, k, t, delta, l, w, r, p, i, lock_calls,
                   global_k, wprime, out, tried>>

\* u = unlock(key, c, s=s, alg=alg)
Unlock ==
    /\ pc = "unlock"
    /\ u' = unlock(key, c, s, alg)
    /\ pc' = "unlocked"
    /\ UNCHANGED <<key, val, s, alg, c, n, k, t, delta, l, w, r, p, i, lock_calls,
                   global_k, wprime, out, tried>>

NextDL == Lock \/ Unlock
SpecDL == InitDL /\ [][NextDL]_vars

\* -------------------------------------------------------------------- gen
\* gen, lines 60-68: n, r, l and the zero-filled list p
GenStart ==
    /\ pc = "gen"
    /\ n' = Len(w)
    /\ \E bs \in [1..(k \div 8) -> TokenByteSet] : r' = PyStr(BytesRepr(bs))
    /\ l' = set_l(n', k, t, delta)
    /\ IF l'.ty = "raise"
       THEN /\ pc' = "gen_raised"
            /\ UNCHANGED <<p, i>>
       ELSE /\ p' = [j \in 1..l'.v |-> PyInt(0)]
            /\ i' = 0
            /\ pc' = "gen_loop"
    /\ UNCHANGED <<key, val, s, alg, c, u, k, t, delta, w, lock_calls,
                   global_k, wprime, out, tried>>

\* np.random.randint(low=0, high=n, size=k): the index sets that can be drawn
IndexChoices_long(nn, kk) == [1..(kk + 1) -> 0..(nn - 1)]

IndexChoices(nn, kk) == [1..kk -> 0..(nn - 1)]

\* the call dl.lock(vi, r) of line 78 with the arguments it binds: the
\* sub-pattern is lock's key, r is lock's val, s, alg and nbytes are defaults
GenLock_swapped(vi, rr, nonce) ==
    [key |-> rr, val |-> vi, out |-> lock(rr, vi, DefaultS, "sha-256", nonce)]

GenLock(vi, rr, nonce) ==
    [key |-> vi, val |-> rr, out |-> lock(vi, rr, DefaultS, "sha-256", nonce)]

\* gen, lines 69-84: one iteration of the loop, or the return of (r, p)
GenStep ==
    /\ pc = "gen_loop"
    /\ IF i < l.v
       THEN \E ji \in IndexChoices(n, k), b \in NonceByteSet :
              LET vi == PyList([j \in 1..k |-> w[ji[j] + 1]])
                  call == GenLock(vi, r, NonceHex(b, DefaultNBytes))
                  ci == call.out
              IN  /\ lock_calls' = Append(lock_calls, [key |-> call.key, val |-> call.val])
                  /\ IF ci.ty = "raise"
                     THEN pc' = "gen_raised" /\ UNCHANGED <<p, i>>
                     ELSE /\ p' = [p EXCEPT ![i + 1] = PyTuple(<<ci, PyList(ji)>>)]
                          /\ i' = i + 1
                          /\ pc' = "gen_loop"
       ELSE /\ pc' = "rep"
            /\ UNCHANGED <<p, i, lock_calls>>
    /\ UNCHANGED <<key, val, s, alg, c, u, n, k, t, delta, l, w, r,
                   global_k, wprime, out, tried>>

\* -------------------------------------------------------------------- rep
\* bool(x) of an unlock result
Truthy(x) == x.ty = "str" /\ Len(x.v) > 0

\* the caller passes a reading and the helper data p
RepStart ==
    /\ pc = "rep"
    /\ wprime' \in Readings
    /\ i' = 0
    /\ tried' = << >>
    /\ pc' = "rep_loop"
    /\ UNCHANGED <<key, val, s, alg, c, u, n, k, t, delta, l, w, r, p, lock_calls,
                   global_k, out>>

\* what one pass of the loop body of rep (lines 102-117) does with entry e:
\* [ret |-> TRUE, out |-> x] leaves rep with x, [ret |-> FALSE] goes on;
\* att tells whether dl.unlock was called
RepBody(e, wp, gk) ==
    IF e.ty # "tuple" THEN [ret |-> TRUE, out |-> Raise("TypeError"), att |-> FALSE]
    ELSE IF Len(e.v) # 2 THEN [ret |-> TRUE, out |-> None, att |-> FALSE]
    ELSE LET ci == e.v[1]
             ji == e.v[2].v
         IN  IF gk.ty = "None"
             THEN [ret |-> TRUE, out |-> Raise("NameError"), att |-> FALSE]
             ELSE IF gk.v > Len(ji) \/ \E j \in 1..gk.v : ji[j] >= Len(wp)
             THEN [ret |-> TRUE, out |-> Raise("IndexError"), att |-> FALSE]
             ELSE LET vi == PyList([j \in 1..gk.v |-> wp[ji[j] + 1]])
                      ri == unlock(vi, ci, DefaultS, "sha-256")
                  IN  IF ri.ty = "raise" THEN [ret |-> TRUE, out |-> ri, att |-> TRUE]
                      ELSE IF Truthy(ri) THEN [ret |-> TRUE, out |-> ri, att |-> TRUE]
                      ELSE [ret |-> FALSE, out |-> None, att |-> TRUE]

\* rep, lines 101-120: one iteration of the loop, or the final return None
RepStep ==
    /\ pc = "rep_loop"
    /\ IF i < Len(p)
       THEN LET b == RepBody(p[i + 1], wprime, global_k)
            IN  /\ tried' = IF b.att THEN Append(tried, i) ELSE tried
                /\ IF b.ret
                   THEN out' = b.out /\ pc' = "done" /\ i' = i
                   ELSE out' = out /\ pc' = "rep_loop" /\ i' = i + 1
       ELSE /\ out' = None
            /\ pc' = "done"
            /\ UNCHANGED <<i, tried>>
    /\ UNCHANGED <<key, val, s, alg, c, u, n, k, t, delta, l, w, r, p, lock_calls,
                   global_k, wprime>>

\* ------------------------------------------- gen followed by rep
Init ==
    /\ pc = "gen"
    /\ w \in Readings
    /\ \E a \in GenParams : k = a[1] /\ t = a[2] /\ delta = a[3]
    /\ global_k \in GlobalKs
    /\ n = Idle.n /\ l = Idle.l /\ r = Idle.r /\ p = Idle.p /\ i = Idle.i
    /\ lock_calls = Idle.lock_calls
    /\ key = Idle.key /\ val = Idle.val /\ s = Idle.s /\ alg = Idle.alg
    /\ c = Idle.c /\ u = Idle.u
    /\ wprime = Idle.wprime /\ out = Idle.out /\ tried = Idle.tried

Next == GenStart \/ GenStep \/ RepStart \/ RepStep
Spec == Init /\ [][Next]_vars

\* ------------------------------------------- rep on hand-made helper data
\* lockers of the values b'', b'a' and the empty string under sub-patterns
\* of the reading <<0, 1>>
GoodEntries ==
    {PyTuple(<<lock(PyList([j \in 1..Len(ji) |-> <<0, 1>>[ji[j] + 1]]), PyStr(vs),
                    DefaultS, "sha-256", NonceHex(10, DefaultNBytes)),
               PyList(ji)>>) :
        ji \in {<<0>>, <<1, 0>>}, vs \in {BytesRepr(<< >>), BytesRepr(<<97>>), << >>}}

\* an int, a 1-tuple, and a pair whose locker output is a 3-tuple
BadEntries ==
    {PyInt(0), PyTuple(<<PyInt(0)>>),
     PyTuple(<<PyTuple(<<PyStr(<<48>>), <<1>>, <<2>>>>), PyList(<<0>>)>>)}

InitRep ==
    /\ pc = "rep"
    /\ p \in SeqsUpTo(GoodEntries \cup BadEntries, MaxEntries)
    /\ global_k \in GlobalKs
    /\ n = Idle.n /\ k = Idle.k /\ t = Idle.t /\ delta = Idle.delta /\ l = Idle.l
    /\ w = Idle.w /\ r = Idle.r /\ i = Idle.i /\ lock_calls = Idle.lock_calls
    /\ key = Idle.key /\ val = Idle.val /\ s = Idle.s /\ alg = Idle.alg
    /\ c = Idle.c /\ u = Idle.u
    /\ wprime = Idle.wprime /\ out = Idle.out /\ tried = Idle.tried

NextRep == RepStart \/ RepStep
SpecRep == InitRep /\ [][NextRep]_vars

\* ================================================================ claims
\* an entry that is a pair
WellFormed(e) == e.ty = "tuple" /\ Len(e.v) = 2

\* the reading's values at the positions of a whole index set
SubPattern(rd, ji) == PyList([j \in 1..Len(ji) |-> rd[ji[j] + 1]])

\* what unlocking entry e gives when the key is taken from all the
\* positions of its index set
EntryUnlock(e, wp) ==
    IF ~WellFormed(e) THEN None
    ELSE IF \E j \in 1..Len(e.v[2].v) : e.v[2].v[j] >= Len(wp) THEN None
    ELSE unlock(SubPattern(wp, e.v[2].v), e.v[1], DefaultS, "sha-256")

Unlocks(e, wp) == EntryUnlock(e, wp).ty = "str"

FirstUnlocking(pp, wp) ==
    CHOOSE a \in 1..Len(pp) :
        Unlocks(pp[a], wp) /\ \A b \in 1..(a - 1) : ~Unlocks(pp[b], wp)

\* C1: unlock(key, lock(key, value, s, alg), s, alg) returns exactly value
\* for every key, value, s >= 0 and algorithm: lock never fails and unlock
\* returns the value unchanged.
C1_RoundTrip ==
    /\ pc # "lock_raised"
    /\ pc = "unlocked" => (u.ty = "str" /\ u = val)

\* C2: when computeLockerCount > 0 and the reading is unchanged, rep returns
\* the key of gen, and does so on the first helper-data entry tried.
C2_ExactReproduction ==
    (pc = "done" /\ wprime = w /\ l.ty = "int" /\ l.v > 0)
        => (out.ty = "str" /\ out = r /\ tried = <<0>>)

\* C3: rep returns the unlock result of the lowest-index entry whose unlock
\* succeeds, attempts no unlock on later entries, and returns None exactly
\* when no entry unlocks (empty helper data included).
C3_FirstSuccess ==
    pc = "done" =>
        IF \E a \in 1..Len(p) : Unlocks(p[a], wprime)
        THEN LET a == FirstUnlocking(p, wprime)
             IN  /\ out.ty = "str"
                 /\ out = EntryUnlock(p[a], wprime)
                 /\ \A x \in 1..Len(tried) : tried[x] + 1 <= a
        ELSE out.ty = "None"

\* C4: a malformed entry fails only itself: when a malformed entry stands
\* before a well-formed entry that unlocks under w', rep still returns a key
\* (that of the first entry that unlocks).
C4_MalformedSkipped ==
    pc = "done" =>
        \A a, b \in 1..Len(p) :
            (a < b /\ ~WellFormed(p[a]) /\ Unlocks(p[b], wprime))
                => (out.ty = "str"
                    /\ out = EntryUnlock(p[FirstUnlocking(p, wprime)], wprime))

\* C5: set_l returns 0, without raising, whenever n < 2 or k < 1 or t < 1
\* or delta < 0 or delta > 1, whatever the other arguments are.
C5_DegenerateIsZero ==
    (pc = "set_l_done"
     /\ (n < 2 \/ k < 1 \/ t < 1 \/ delta < 0 \/ delta > DeltaScale))
        => (l.ty = "int" /\ l.v = 0)

C5_Witness ==
    pc = "set_l_done" /\ n = 1024 /\ k = 80 /\ t = 31 /\ delta = 15000 /\ l = PyInt(0)

\* ceil(q * log2(4/delta)): the product is an integer only when the
\* logarithm is one
CeilProduct(q, f) == IF f % Log2Scale = 0 THEN q * (f \div Log2Scale) ELSE IntTrunc(q, f) + 1

\* C6: for n >= 2, k >= 1, t >= 1 and 0 <= delta <= 1, set_l returns the
\* non-negative integer ceil(n^ceil(t*k/(n ln n)) * log2(4/delta)).
C6_CeilFormula ==
    (pc = "set_l_done" /\ n >= 2 /\ k >= 1 /\ t >= 1 /\ delta >= 0 /\ delta <= DeltaScale)
        => /\ l.ty = "int"
           /\ l.v >= 0
           /\ l.v = CeilProduct(n ^ Exponent(n, k, t), Log2Fix(delta))

\* rep as a function of (w', p) alone: every entry's key is built from the
\* whole index set stored in the entry
RECURSIVE RepWhole(_, _, _)
RepWhole(pp, wp, j) ==
    IF j > Len(pp) THEN None
    ELSE LET e == pp[j]
             b == RepBody(e, wp, IF WellFormed(e) THEN PyInt(Len(e.v[2].v)) ELSE None)
         IN  IF b.ret THEN b.out ELSE RepWhole(pp, wp, j + 1)

\* C7: the result of rep depends on w' and p only, not on the module-level
\* name k, and every entry's unlock key is built from the positions of the
\* entry's whole index set.
C7_RepPure ==
    pc = "done" => out = RepWhole(p, wprime, 1)

\* C8: for a fixed hash algorithm the cipher returned by lock has the width
\* of the digest for every key, value and s; it is never wider.
C8_FixedWidthCipher ==
    pc \in {"unlock", "unlocked"} => Len(c.v[2]) = 2 * DigestBytes(HashAlgOf(alg))

\* C9 (as stated): every locker of gen is made by lock with the enrollment
\* key r as lock's key argument and the sub-pattern w[IndexSet] as lock's
\* value argument.
C9_KeyIsLockKey ==
    \A j \in 1..Len(lock_calls) :
        /\ lock_calls[j].key.ty = "str"
        /\ lock_calls[j].key = r
        /\ lock_calls[j].val.ty = "list"
        /\ WellFormed(p[j]) => lock_calls[j].val = SubPattern(w, p[j].v[2].v)

\* C9 (amended): every locker of gen is made by lock with the sub-pattern
\* w[IndexSet] as lock's key argument and the enrollment key r as lock's
\* value argument, the same r for all entries of the enrollment.
C9_SubPatternIsLockKey ==
    /\ pc = "gen_loop" => Len(lock_calls) = i
    /\ pc \in {"rep", "rep_loop", "done"} => Len(lock_calls) = Len(p)
    /\ \A j \in 1..Len(lock_calls) :
        /\ lock_calls[j].val.ty = "str"
        /\ lock_calls[j].val = r
        /\ lock_calls[j].key.ty = "list"
        /\ WellFormed(p[j])
        /\ lock_calls[j].key = SubPattern(w, p[j].v[2].v)

C9_Witness == pc = "rep" /\ Len(lock_calls) = 4 /\ Len(p) = 4

\* a helper-data entry: a (LockOutput, IndexSet) pair with kk indices in [0, nn)
IsEntry(e, nn, kk) ==
    /\ WellFormed(e)
    /\ e.v[1].ty = "tuple" /\ Len(e.v[1].v) = 2
    /\ e.v[2].ty = "list" /\ Len(e.v[2].v) = kk
    /\ \A j \in 1..Len(e.v[2].v) : e.v[2].v[j] \in 0..(nn - 1)

\* C10: the helper data returned by gen has exactly set_l(n, k, t, delta)
\* entries, each a (LockOutput, IndexSet) pair with k indices in [0, n);
\* after i iterations of the loop exactly the first i slots are filled.
C10_HelperDataShape ==
    /\ pc = "gen_loop" =>
          /\ Len(p) = l.v
          /\ i <= Len(p)
          /\ \A j \in 1..Len(p) :
                IF j <= i THEN IsEntry(p[j], Len(w), k) ELSE p[j] = PyInt(0)
    /\ pc \in {"rep", "rep_loop", "done"} =>
          /\ set_l(Len(w), k, t, delta).ty = "int"
          /\ Len(p) = set_l(Len(w), k, t, delta).v
          /\ \A j \in 1..Len(p) : IsEntry(p[j], Len(w), k)

C10_Witness ==
    pc = "rep" /\ Len(p) = 4 /\ k = 1 /\ \E j \in 1..Len(p) : p[j].v[2].v = <<1>>
====
